---- MODULE Spec2Model ----
(***************************************************************************)
(* The AI Toolbox API (src/main.py): four read handlers and one write      *)
(* handler over a document store of "tool" records.                        *)
(*                                                                         *)
(* Text is modelled as a sequence of one-character strings, so that        *)
(* lower-casing, whitespace splitting, joining and substring search are    *)
(* computed and not assumed.  An optional query parameter is None (absent) *)
(* or Some(v); Some of the empty text is a parameter given as "?q=".       *)
(***************************************************************************)
EXTENDS Integers, Sequences, FiniteSets, TLC

VARIABLES
    db,            \* the process-wide store handle: "ok" or "none"
    store,         \* the "tool" collection: a sequence of documents
    nextId,        \* the identifier the store assigns next
    req,           \* the request handled last
    resp,          \* its response
    mongo_filter,  \* the filter the handler handed to the store
    docs,          \* what get_documents returned to the handler
    scored,        \* recommend_tools' scored list after the sort
    storeCalls,    \* store calls the last request made
    posted         \* payloads for which POST /api/tools returned an id

vars == <<db, store, nextId, req, resp, mongo_filter, docs, scored, storeCalls, posted>>

(***************************************************************************)
(* Bounds of the model.                                                    *)
(***************************************************************************)
MaxStore == 3
MaxRank == 11

(***************************************************************************)
(* Program constants.                                                      *)
(***************************************************************************)
DefaultLimit == 50
MinLimit == 1
MaxLimit == 200
RecommendFetch == 200
TopN == 10
MinWordLen == 2
WordWeight == 2
CategoryBoost == 3
CategoryPenalty == 1
BudgetWeight == 2
CollectionCap == 10
DiagMsgCap == 50
HttpOk == 200
HttpInvalid == 422
HttpError == 500

(***************************************************************************)
(* Optional values and text.                                               *)
(***************************************************************************)
None == <<>>
Some(v) == <<v>>
\* Python truthiness of an Optional[str]: None and "" are both falsy.
Truthy(o) == o # None /\ o[1] # <<>>

Min(a, b) == IF a < b THEN a ELSE b
Take(s, n) == SubSeq(s, 1, Min(n, Len(s)))

UpperLetters == <<"A","B","C","D","E","F","G","H","I","J","K","L","M",
                  "N","O","P","Q","R","S","T","U","V","W","X","Y","Z">>
LowerLetters == <<"a","b","c","d","e","f","g","h","i","j","k","l","m",
                  "n","o","p","q","r","s","t","u","v","w","x","y","z">>
LowerOf ==
    [c \in {UpperLetters[i] : i \in 1..Len(UpperLetters)} |->
        LowerLetters[CHOOSE i \in 1..Len(UpperLetters) : UpperLetters[i] = c]]
LowerChar(c) == IF c \in DOMAIN LowerOf THEN LowerOf[c] ELSE c
\* str.lower()
Lower(s) == [i \in 1..Len(s) |-> LowerChar(s[i])]

\* Python's "needle in haystack" on strings
IsSubstr(n, h) ==
    \E i \in 0..(Len(h) - Len(n)) : SubSeq(h, i + 1, i + Len(n)) = n

IsSpace(c) == c = " "

\* str.split(): split on runs of whitespace, no empty tokens
RECURSIVE SplitFrom(_, _, _)
SplitFrom(s, i, cur) ==
    IF i > Len(s)
    THEN (IF cur = <<>> THEN <<>> ELSE <<cur>>)
    ELSE IF IsSpace(s[i])
         THEN (IF cur = <<>> THEN <<>> ELSE <<cur>>) \o SplitFrom(s, i + 1, <<>>)
         ELSE SplitFrom(s, i + 1, Append(cur, s[i]))
Split(s) == SplitFrom(s, 1, <<>>)

\* ' '.join(xs)
RECURSIVE Join(_)
Join(xs) ==
    IF xs = <<>> THEN <<>>
    ELSE IF Len(xs) = 1 THEN xs[1]
    ELSE xs[1] \o <<" ">> \o Join(Tail(xs))

Range(f) == {f[i] : i \in DOMAIN f}

(***************************************************************************)
(* The Tool record and the store gateway.                                  *)
(***************************************************************************)
ToolFields == {"name", "description", "tags", "categories", "pricing", "use_cases"}

\* Tool(**d) accepts d
ValidDoc(d) ==
    /\ "name" \in DOMAIN d
    /\ d["name"] # <<>>
    /\ "description" \in DOMAIN d

ValidationMsg == "validation error for Tool"

\* Tool(**d): absent sequence fields default to empty
Rehydrate(d) ==
    [name        |-> d["name"],
     description |-> d["description"],
     tags        |-> IF "tags" \in DOMAIN d THEN d["tags"] ELSE <<>>,
     categories  |-> IF "categories" \in DOMAIN d THEN d["categories"] ELSE <<>>,
     pricing     |-> d["pricing"],
     use_cases   |-> IF "use_cases" \in DOMAIN d THEN d["use_cases"] ELSE <<>>]

\* d.pop("_id", None)
PopId(d) == [k \in DOMAIN d \ {"_id"} |-> d[k]]

\* create_document("tool", payload): the stored document
create_document(payload, id) == payload @@ ("_id" :> id)

EmptyFilter == [k \in {} |-> <<>>]

\* the store's match of a document against a filter
MatchesFilter(d, f) ==
    /\ "categories" \in DOMAIN f =>
          /\ "categories" \in DOMAIN d
          /\ \E x \in Range(f["categories"]) : x \in Range(d["categories"])
    /\ "pricing" \in DOMAIN f =>
          /\ "pricing" \in DOMAIN d
          /\ d["pricing"] = f["pricing"]

RECURSIVE Select(_, _)
Select(s, f) ==
    IF s = <<>> THEN <<>>
    ELSE IF MatchesFilter(Head(s), f) THEN <<Head(s)>> \o Select(Tail(s), f)
    ELSE Select(Tail(s), f)

\* get_documents("tool", f, limit): copies of the matching documents
get_documents(s, f, limit) == Take(Select(s, f), limit)

NoErr == ""
StoreErrors == {"store unavailable", "operation timed out"}
\* a store call fails when the handle was never initialised, and may fail otherwise
StoreOutcomes == IF db = "none" THEN StoreErrors ELSE {NoErr} \cup StoreErrors

(***************************************************************************)
(* Inputs: the texts, payloads and prior store contents requests draw on.  *)
(***************************************************************************)
tEmpty == <<>>
tPdfSum == <<"P","D","F"," ","S","u","m">>
tSumPdf == <<"s","u","m"," ","p","d","f">>
tPdf == <<"p","d","f">>
tPDF == <<"P","D","F">>
tDocs == <<"d","o","c","s">>
tChat == <<"C","h","a","t">>
tBot == <<"b","o","t">>
tAI == <<"A","I">>
tAi == <<"a","i">>
tX == <<"x">>
tPdfBot == <<"p","d","f"," ","b","o","t">>
tOld == <<"o","l","d">>
tBad == <<"b","a","d">>
tProd == <<"P","r","o","d">>
tprod == <<"p","r","o","d">>
tCode == <<"c","o","d","e">>
tCODE == <<"C","O","D","E">>
tFree == <<"f","r","e","e">>
tPaid == <<"p","a","i","d">>
tSumPDFSum == <<"s","u","m"," ","P","D","F"," "," ","s","u","m">>
tAiBot == <<"a","i"," ","b","o","t">>

PdfTool == [name |-> tPdfSum, description |-> tSumPdf, tags |-> <<tPdf>>,
            categories |-> <<tProd>>, pricing |-> tFree, use_cases |-> <<tDocs>>]
ChatTool == [name |-> tChat, description |-> tBot, tags |-> <<tAI>>,
             categories |-> <<tCode>>, pricing |-> tPaid, use_cases |-> <<>>]
OddTool == [name |-> tX, description |-> tEmpty, tags |-> <<>>,
            categories |-> <<>>, pricing |-> tEmpty, use_cases |-> <<tPdfBot>>]
\* bodies POST /api/tools accepts
ToolPool == {PdfTool, ChatTool, OddTool}

\* documents written before this process started
LegacyDoc == [name |-> tOld, description |-> tPdf, categories |-> <<tprod>>,
              pricing |-> tFree] @@ ("_id" :> 1)
BrokenDoc == [name |-> tBad, pricing |-> tFree] @@ ("_id" :> 2)
InitStores == {<<>>, <<LegacyDoc>>, <<LegacyDoc, BrokenDoc>>}

Queries == {None, Some(tEmpty), Some(tPDF), Some(tAi), Some(tBot)}
CategoryParams == {None, Some(tEmpty), Some(tProd), Some(tprod)}
PricingParams == {None, Some(tEmpty), Some(tFree)}
LimitParams == {None, Some(0), Some(1), Some(2), Some(200), Some(201)}
Tasks == {tEmpty, tSumPDFSum, tAiBot}
CategoryLists == {None, Some(<<tCODE>>), Some(<<tX, tprod>>)}
Budgets == {None, Some(tEmpty), Some(tFree)}

\* the orders in which a set can be iterated
Orders(S) == {o \in [1..Cardinality(S) -> S] : Range(o) = S}

(***************************************************************************)
(* Responses.                                                              *)
(***************************************************************************)
NoInfo == [message |-> ""]
Response(status, tools, id, detail, info) ==
    [status |-> status, tools |-> tools, id |-> id, detail |-> detail, info |-> info]
\* raise HTTPException(status_code=500, detail=str(e))
ServerError(e) == Response(HttpError, <<>>, 0, e, NoInfo)
\* the framework's rejection of a parameter out of range
Invalid == Response(HttpInvalid, <<>>, 0, "invalid parameter", NoInfo)

\* between requests: no request is being handled and no response is pending
NoRequest == [op |-> "none"]
NoResponse == Response(0, <<>>, 0, "", NoInfo)

(***************************************************************************)
(* list_tools: GET /api/tools                                              *)
(***************************************************************************)
\* the filter builder with the pricing branch forgotten
BuildFilterNoPricing(category, pricing) ==
    IF Truthy(category) THEN "categories" :> <<category[1]>> ELSE EmptyFilter

\* the filter builder
BuildFilter(category, pricing) ==
    (IF Truthy(category) THEN "categories" :> <<category[1]>> ELSE EmptyFilter)
    @@ (IF Truthy(pricing) THEN "pricing" :> pricing[1] ELSE EmptyFilter)

\* the rehydration loop: the first document Tool(**d) refuses raises
RECURSIVE HydrateFrom(_, _, _)
HydrateFrom(ds, i, acc) ==
    IF i > Len(ds) THEN [ok |-> TRUE, tools |-> acc]
    ELSE IF ValidDoc(PopId(ds[i]))
         THEN HydrateFrom(ds, i + 1, Append(acc, Rehydrate(PopId(ds[i]))))
         ELSE [ok |-> FALSE, tools |-> acc]
\* a loop that stops one document short
HydrateDropLast(ds) == HydrateFrom(SubSeq(ds, 1, Len(ds) - 1), 1, <<>>)
\* a loop that skips the documents Tool(**d) refuses
HydrateSkipInvalid(ds) ==
    [ok |-> TRUE,
     tools |-> LET good == SelectSeq(ds, LAMBDA d : ValidDoc(PopId(d)))
               IN  [i \in 1..Len(good) |-> Rehydrate(PopId(good[i]))]]
Hydrate(ds) == HydrateFrom(ds, 1, <<>>)

\* the comprehension with the tags forgotten
SearchMatchNoTags(t, q_lower) ==
    \/ IsSubstr(q_lower, Lower(t.name))
    \/ IsSubstr(q_lower, Lower(t.description))

\* the condition of the free-text comprehension
SearchMatch(t, q_lower) ==
    \/ IsSubstr(q_lower, Lower(t.name))
    \/ IsSubstr(q_lower, Lower(t.description))
    \/ \E i \in 1..Len(t.tags) : IsSubstr(q_lower, Lower(t.tags[i]))

SearchFilter(tools, q) ==
    IF Truthy(q)
    THEN SelectSeq(tools, LAMBDA t : SearchMatch(t, Lower(q[1])))
    ELSE tools

\* limit: int = Query(50, ge=1, le=200)
LimitOf(limit) == IF limit = None THEN DefaultLimit ELSE limit[1]
\* ge=0 for ge=1
LimitAcceptedFromZero(lim) == lim >= 0 /\ lim <= MaxLimit
LimitAccepted(lim) == lim >= MinLimit /\ lim <= MaxLimit

list_tools(q, category, pricing, limit, err) ==
    LET lim == LimitOf(limit)
        f == BuildFilter(category, pricing)
        fetched == get_documents(store, f, lim)
        h == Hydrate(fetched)
    IN  /\ req = NoRequest
        /\ req' = [op |-> "list", q |-> q, category |-> category,
                   pricing |-> pricing, limit |-> limit, err |-> err]
        /\ IF ~LimitAccepted(lim)
           THEN /\ resp' = Invalid
                /\ storeCalls' = 0
                /\ mongo_filter' = EmptyFilter
                /\ docs' = <<>>
           ELSE /\ mongo_filter' = f
                /\ storeCalls' = 1
                /\ IF err # NoErr
                   THEN /\ docs' = <<>>
                        /\ resp' = ServerError(err)
                   ELSE /\ docs' = fetched
                        /\ resp' = IF h.ok
                                   THEN Response(HttpOk, SearchFilter(h.tools, q), 0, "", NoInfo)
                                   ELSE ServerError(ValidationMsg)
        /\ scored' = <<>>
        /\ UNCHANGED <<db, store, nextId, posted>>

(***************************************************************************)
(* recommend_tools: GET /api/recommend                                     *)
(***************************************************************************)
Hay(tool) ==
    Lower(tool.name \o <<" ">> \o tool.description \o <<" ">>
          \o Join(tool.tags) \o <<" ">> \o Join(tool.use_cases))

\* set(t.split())
TaskWords(task) == Range(Split(Lower(task)))

\* the loop with the length test off by one (>= 2 for > 2)
RECURSIVE WordScoreShort(_, _)
WordScoreShort(hay, order) ==
    IF order = <<>> THEN 0
    ELSE (IF Len(Head(order)) >= MinWordLen /\ IsSubstr(Head(order), hay)
          THEN WordWeight ELSE 0) + WordScoreShort(hay, Tail(order))

\* the loop left at the first word that does not match
RECURSIVE WordScoreBreak(_, _)
WordScoreBreak(hay, order) ==
    IF order = <<>> THEN 0
    ELSE IF Len(Head(order)) > MinWordLen /\ IsSubstr(Head(order), hay)
         THEN WordWeight + WordScoreBreak(hay, Tail(order))
         ELSE 0

\* the loop over the words, in the order the set is iterated
RECURSIVE WordScore(_, _)
WordScore(hay, order) ==
    IF order = <<>> THEN 0
    ELSE (IF Len(Head(order)) > MinWordLen /\ IsSubstr(Head(order), hay)
          THEN WordWeight ELSE 0) + WordScore(hay, Tail(order))

CategoryScore(tool, categories) ==
    IF Truthy(categories)
    THEN IF \E i \in 1..Len(categories[1]) :
              Lower(categories[1][i]) \in {Lower(tool.categories[j]) : j \in 1..Len(tool.categories)}
         THEN CategoryBoost
         ELSE 0 - CategoryPenalty
    ELSE 0

\* the comparison inverted
BudgetScoreInverted(tool, budget) ==
    IF Truthy(budget) /\ tool.pricing # budget[1] THEN BudgetWeight ELSE 0

BudgetScore(tool, budget) ==
    IF Truthy(budget) /\ tool.pricing = budget[1] THEN BudgetWeight ELSE 0

Score(tool, order, categories, budget) ==
    WordScore(Hay(tool), order) + CategoryScore(tool, categories) + BudgetScore(tool, budget)

\* scored.append((score, tool)); pos is the tool's place in the fetch
ScoreAll(tools, order, categories, budget) ==
    [i \in 1..Len(tools) |->
        [score |-> Score(tools[i], order, categories, budget), tool |-> tools[i], pos |-> i]]

\* an insertion that puts a later element before its equals: an unstable sort
RECURSIVE InsertDescUnstable(_, _)
InsertDescUnstable(s, x) ==
    IF s = <<>> THEN <<x>>
    ELSE IF Head(s).score > x.score
         THEN <<Head(s)>> \o InsertDescUnstable(Tail(s), x)
         ELSE <<x>> \o s

\* scored.sort(key=lambda x: x[0], reverse=True): insertion keeps equal keys in order
RECURSIVE InsertDesc(_, _)
InsertDesc(s, x) ==
    IF s = <<>> THEN <<x>>
    ELSE IF Head(s).score >= x.score
         THEN <<Head(s)>> \o InsertDesc(Tail(s), x)
         ELSE <<x>> \o s

RECURSIVE SortFrom(_, _, _)
SortFrom(xs, i, acc) ==
    IF i > Len(xs) THEN acc ELSE SortFrom(xs, i + 1, InsertDesc(acc, xs[i]))
SortDesc(xs) == SortFrom(xs, 1, <<>>)

\* [tool for score, tool in scored[:10]]
TopTools(sorted) == [i \in 1..Min(TopN, Len(sorted)) |-> sorted[i].tool]

recommend_tools(task, order, categories, budget, err) ==
    LET fetched == get_documents(store, EmptyFilter, RecommendFetch)
        h == Hydrate(fetched)
        sorted == SortDesc(ScoreAll(h.tools, order, categories, budget))
    IN  /\ req = NoRequest
        /\ order \in Orders(TaskWords(task))
        /\ req' = [op |-> "recommend", task |-> task, order |-> order,
                   categories |-> categories, budget |-> budget, err |-> err]
        /\ mongo_filter' = EmptyFilter
        /\ storeCalls' = 1
        /\ IF err # NoErr
           THEN /\ docs' = <<>>
                /\ scored' = <<>>
                /\ resp' = ServerError(err)
           ELSE /\ docs' = fetched
                /\ IF h.ok
                   THEN /\ scored' = sorted
                        /\ resp' = Response(HttpOk, TopTools(sorted), 0, "", NoInfo)
                   ELSE /\ scored' = <<>>
                        /\ resp' = ServerError(ValidationMsg)
        /\ UNCHANGED <<db, store, nextId, posted>>

(***************************************************************************)
(* add_tool: POST /api/tools                                               *)
(***************************************************************************)
\* the handler with the document written before the store call fails
add_tool_written_on_failure(payload, err) ==
    /\ req = NoRequest
    /\ Len(store) < MaxStore
    /\ req' = [op |-> "add", payload |-> payload, err |-> err]
    /\ mongo_filter' = EmptyFilter
    /\ docs' = <<>>
    /\ scored' = <<>>
    /\ storeCalls' = 1
    /\ store' = Append(store, create_document(payload, nextId))
    /\ nextId' = nextId + 1
    /\ IF err # NoErr
       THEN /\ resp' = ServerError(err)
            /\ UNCHANGED posted
       ELSE /\ posted' = posted \cup {payload}
            /\ resp' = Response(HttpOk, <<>>, nextId, "", NoInfo)
    /\ UNCHANGED db

add_tool(payload, err) ==
    /\ req = NoRequest
    /\ Len(store) < MaxStore
    /\ req' = [op |-> "add", payload |-> payload, err |-> err]
    /\ mongo_filter' = EmptyFilter
    /\ docs' = <<>>
    /\ scored' = <<>>
    /\ storeCalls' = 1
    /\ IF err # NoErr
       THEN /\ resp' = ServerError(err)
            /\ UNCHANGED <<store, nextId, posted>>
       ELSE /\ store' = Append(store, create_document(payload, nextId))
            /\ nextId' = nextId + 1
            /\ posted' = posted \cup {payload}
            /\ resp' = Response(HttpOk, <<>>, nextId, "", NoInfo)
    /\ UNCHANGED db

(***************************************************************************)
(* read_root and test_database                                             *)
(***************************************************************************)
read_root ==
    /\ req = NoRequest
    /\ req' = [op |-> "root"]
    /\ resp' = Response(HttpOk, <<>>, 0, "", [message |-> "AI Toolbox Backend Running"])
    /\ mongo_filter' = EmptyFilter
    /\ docs' = <<>>
    /\ scored' = <<>>
    /\ storeCalls' = 0
    /\ UNCHANGED <<db, store, nextId, posted>>

\* what db.list_collection_names() gives: names, or an exception's message
LongMsg == [i \in 1..(DiagMsgCap + 2) |-> "e"]
Listings == {[ok |-> TRUE, names |-> <<"tool">>, msg |-> <<>>],
             [ok |-> FALSE, names |-> <<>>, msg |-> LongMsg]}

test_database(listing, urlSet, nameSet) ==
    LET database ==
            IF db = "none" THEN [state |-> "Available but not initialized", error |-> <<>>]
            ELSE IF listing.ok THEN [state |-> "Connected & Working", error |-> <<>>]
            ELSE [state |-> "Connected but Error", error |-> Take(listing.msg, DiagMsgCap)]
    IN  /\ req = NoRequest
        /\ req' = [op |-> "test", listing |-> listing, urlSet |-> urlSet, nameSet |-> nameSet]
        /\ resp' = Response(HttpOk, <<>>, 0, "",
                      [backend |-> "Running",
                       database |-> database,
                       database_url |-> IF urlSet THEN "Set" ELSE "Not Set",
                       database_name |-> IF nameSet THEN "Set" ELSE "Not Set",
                       connection_status |-> IF db = "none" THEN "Not Connected" ELSE "Connected",
                       collections |-> IF db # "none" /\ listing.ok
                                       THEN Take(listing.names, CollectionCap) ELSE <<>>])
        /\ mongo_filter' = EmptyFilter
        /\ docs' = <<>>
        /\ scored' = <<>>
        /\ storeCalls' = 0
        /\ UNCHANGED <<db, store, nextId, posted>>

\* the response is sent and the handler's locals are gone; the service
\* handles the next request
complete_request ==
    /\ req # NoRequest
    /\ req' = NoRequest
    /\ resp' = NoResponse
    /\ mongo_filter' = EmptyFilter
    /\ docs' = <<>>
    /\ scored' = <<>>
    /\ storeCalls' = 0
    /\ UNCHANGED <<db, store, nextId, posted>>

(***************************************************************************)
(* The service: any request, one at a time, over any prior store content.  *)
(***************************************************************************)
Init ==
    /\ db \in {"ok", "none"}
    /\ store \in InitStores
    /\ nextId = Len(store) + 1
    /\ req = NoRequest
    /\ resp = NoResponse
    /\ mongo_filter = EmptyFilter
    /\ docs = <<>>
    /\ scored = <<>>
    /\ storeCalls = 0
    /\ posted = {}

\* a request arrives only when the one before it has been answered
Next ==
    \/ req = NoRequest /\ read_root
    \/ req = NoRequest /\
          \E listing \in Listings, urlSet \in BOOLEAN, nameSet \in BOOLEAN :
             test_database(listing, urlSet, nameSet)
    \/ req = NoRequest /\
          \E payload \in ToolPool, err \in StoreOutcomes : add_tool(payload, err)
    \/ req = NoRequest /\
          \E q \in Queries, category \in CategoryParams, pricing \in PricingParams,
             limit \in LimitParams, err \in StoreOutcomes :
             list_tools(q, category, pricing, limit, err)
    \/ req = NoRequest /\
          \E task \in Tasks, categories \in CategoryLists, budget \in Budgets,
             err \in StoreOutcomes :
             \E order \in Orders(TaskWords(task)) :
                recommend_tools(task, order, categories, budget, err)
    \/ complete_request

Spec == Init /\ [][Next]_vars

(***************************************************************************)
(* Ranking alone, over fetches shorter and longer than the ten returned.   *)
(***************************************************************************)
RankPool == {PdfTool, ChatTool}
RankTasks == {tEmpty, tAiBot}
RankCategoryLists == {None, Some(<<tCODE>>)}
RankBudgets == {None, Some(tFree)}
RankStores ==
    UNION {{[i \in 1..n |-> create_document(ts[i], i)] : ts \in [1..n -> RankPool]} :
           n \in (MaxRank - 2)..MaxRank}

InitRank ==
    /\ db = "ok"
    /\ store \in RankStores
    /\ nextId = Len(store) + 1
    /\ req = NoRequest
    /\ resp = NoResponse
    /\ mongo_filter = EmptyFilter
    /\ docs = <<>>
    /\ scored = <<>>
    /\ storeCalls = 0
    /\ posted = {}

NextRank ==
    \/ req = NoRequest /\
          \E task \in RankTasks, categories \in RankCategoryLists, budget \in RankBudgets :
             \E order \in Orders(TaskWords(task)) :
                recommend_tools(task, order, categories, budget, NoErr)
    \/ complete_request

SpecRank == InitRank /\ [][NextRank]_vars

(***************************************************************************)
(* What the claims speak of, stated apart from the handlers' own helpers.  *)
(***************************************************************************)
\* the tools of the fetched page, once every document is known to rehydrate
Page == [i \in 1..Len(docs) |-> Rehydrate(PopId(docs[i]))]

\* n occurs in h as a contiguous block
Occurs(n, h) ==
    \E a \in 0..Len(h) :
        /\ a + Len(n) <= Len(h)
        /\ \A k \in 1..Len(n) : h[a + k] = n[k]

\* the k-th smallest member of a set of indices
Nth(S, k) == CHOOSE i \in S : Cardinality({j \in S : j <= i}) = k

Succeeded(op) == req.op = op /\ resp.status = 200

(***************************************************************************)
(* C1: GET /api/tools with a query q answers exactly the tools of the      *)
(* fetched page, in fetch order, whose lower-cased name, description or    *)
(* some tag contains lower-cased q; without q it answers the fetched page; *)
(* nothing outside the page is answered.                                   *)
(***************************************************************************)
C1Wanted(t, q) ==
    \/ Occurs(Lower(q), Lower(t.name))
    \/ Occurs(Lower(q), Lower(t.description))
    \/ \E tag \in Range(t.tags) : Occurs(Lower(q), Lower(tag))

C1Kept == {i \in 1..Len(Page) : C1Wanted(Page[i], req.q[1])}

\* C1: the answer is the page itself without q, and with q exactly the
\* page's matching tools, in page order
C1_SearchIsExactSubsequence ==
    Succeeded("list") =>
        IF req.q = None
        THEN resp.tools = Page
        ELSE /\ Len(resp.tools) = Cardinality(C1Kept)
             /\ \A k \in 1..Len(resp.tools) : resp.tools[k] = Page[Nth(C1Kept, k)]

\* a query matching one tool of a longer page through a tag alone, in another case
C1_Witness ==
    /\ Succeeded("list")
    /\ req.q = Some(tAi)
    /\ Len(docs) >= 2
    /\ Len(resp.tools) = 1
    /\ resp.tools[1] = ChatTool

(***************************************************************************)
(* C2: for GET /api/tools the filter handed to the store requires          *)
(* categories to contain category whenever category is present, requires   *)
(* pricing to equal the given value whenever pricing is present, and is    *)
(* empty only when neither is present; so category=X and pricing=Y answer  *)
(* only tools whose categories include X and whose pricing equals Y.       *)
(* As claimed, "present" is any given value, the empty one included.       *)
(***************************************************************************)
C2Filter(given(_)) ==
    /\ given(req.category) <=>
          /\ "categories" \in DOMAIN mongo_filter
          /\ mongo_filter["categories"] = <<req.category[1]>>
    /\ given(req.pricing) <=>
          /\ "pricing" \in DOMAIN mongo_filter
          /\ mongo_filter["pricing"] = req.pricing[1]
    /\ DOMAIN mongo_filter = {} <=> (~given(req.category) /\ ~given(req.pricing))
    /\ resp.status = 200 =>
          \A i \in 1..Len(resp.tools) :
              /\ given(req.category) => req.category[1] \in Range(resp.tools[i].categories)
              /\ given(req.pricing) => resp.tools[i].pricing = req.pricing[1]

GivenAtAll(o) == o # None
GivenNonEmpty(o) == o # None /\ Len(o[1]) > 0

\* C2 as claimed: each parameter that is present, empty or not, is in the
\* filter, and the filter is empty only when both are absent
C2_Original_FilterWheneverPresent ==
    (req.op = "list" /\ storeCalls = 1) => C2Filter(GivenAtAll)

\* C2 amended: each parameter that is present and not the empty string is in
\* the filter, the filter is empty only when neither is, and the answer
\* holds only tools meeting the parameters that are
C2_FilterWheneverNonEmpty ==
    (req.op = "list" /\ storeCalls = 1) => C2Filter(GivenNonEmpty)

\* both filters given, a matching tool answered and other documents left out
C2_Witness ==
    /\ Succeeded("list")
    /\ req.category = Some(tProd)
    /\ req.pricing = Some(tFree)
    /\ req.q = None
    /\ resp.tools = <<PdfTool>>
    /\ Len(store) = 3

(***************************************************************************)
(* C3: the score of each fetched tool in GET /api/recommend is 2 for each  *)
(* distinct whitespace-separated token of lower-cased task longer than 2   *)
(* characters that occurs in the tool's haystack; plus 3 if categories is  *)
(* given and some requested category equals, ignoring case, a category of  *)
(* the tool, minus 1 if given and none does; plus 2 if budget is given and *)
(* equals the tool's pricing exactly.  Repeated words count once.          *)
(***************************************************************************)
\* the maximal runs of non-space characters of t
C3Tokens(t) ==
    {SubSeq(t, a, b) : <<a, b>> \in
        {ab \in (1..Len(t)) \X (1..Len(t)) :
            /\ ab[1] <= ab[2]
            /\ \A k \in ab[1]..ab[2] : t[k] # " "
            /\ (ab[1] = 1 \/ t[ab[1] - 1] = " ")
            /\ (ab[2] = Len(t) \/ t[ab[2] + 1] = " ")}}

C3Haystack(tool) ==
    Lower(tool.name) \o <<" ">> \o Lower(tool.description) \o <<" ">>
    \o Lower(Join(tool.tags)) \o <<" ">> \o Lower(Join(tool.use_cases))

C3Keyword(tool) ==
    2 * Cardinality({w \in C3Tokens(Lower(req.task)) :
                        Len(w) > 2 /\ Occurs(w, C3Haystack(tool))})

C3Category(tool) ==
    IF req.categories = None THEN 0
    ELSE IF \E c \in Range(req.categories[1]), cat \in Range(tool.categories) :
               Lower(c) = Lower(cat)
         THEN 3 ELSE 0 - 1

C3Budget(tool, given(_)) ==
    IF given(req.budget) /\ req.budget[1] = tool.pricing THEN 2 ELSE 0

C3Scores(given(_)) ==
    Succeeded("recommend") =>
        /\ Len(scored) = Len(docs)
        /\ \A i \in 1..Len(scored) :
              scored[i].score =
                 C3Keyword(scored[i].tool) + C3Category(scored[i].tool)
                 + C3Budget(scored[i].tool, given)

\* C3 as claimed: the budget bonus for any given budget equal to the pricing
C3_Original_ScoreFormula == C3Scores(GivenAtAll)

\* C3 amended: every score is keyword + category + budget part, the budget
\* bonus needing a budget that is given, not the empty string, and equal to
\* the tool's pricing
C3_ScoreFormula == C3Scores(GivenNonEmpty)

\* a repeated word, a category met in another case and the budget met: 4 + 3 + 2
C3_Witness ==
    /\ Succeeded("recommend")
    /\ req.task = tSumPDFSum
    /\ req.categories = Some(<<tX, tprod>>)
    /\ req.budget = Some(tFree)
    /\ \E i \in 1..Len(scored) : scored[i].tool = PdfTool /\ scored[i].score = 9
    /\ \E i \in 1..Len(scored) : scored[i].score < 0

(***************************************************************************)
(* C4: GET /api/recommend over a fetch of n tools answers the first        *)
(* min(10, n) of the fetch sorted by score descending, tools of equal      *)
(* score in fetch order, with no score floor.                              *)
(***************************************************************************)
\* C4: the sorted list is a permutation of the fetch, descending by score,
\* equal scores in fetch order, and the answer is its first min(10, n) tools
C4_StableTopTen ==
    Succeeded("recommend") =>
        /\ Len(scored) = Len(docs)
        /\ {scored[i].pos : i \in 1..Len(scored)} = 1..Len(docs)
        /\ \A i \in 1..Len(scored) :
              /\ scored[i].tool = Page[scored[i].pos]
              /\ scored[i].score =
                    Score(scored[i].tool, req.order, req.categories, req.budget)
        /\ \A i, j \in 1..Len(scored) :
              i < j => \/ scored[i].score > scored[j].score
                       \/ /\ scored[i].score = scored[j].score
                          /\ scored[i].pos < scored[j].pos
        /\ Len(resp.tools) = (IF Len(docs) < 10 THEN Len(docs) ELSE 10)
        /\ \A i \in 1..Len(resp.tools) : resp.tools[i] = scored[i].tool

\* more than ten fetched, ten answered, the last of them with a negative
\* score, a tie between tools kept in fetch order, and a tool moved forward
C4_Witness ==
    /\ Succeeded("recommend")
    /\ Len(docs) > 10
    /\ Len(resp.tools) = 10
    /\ scored[10].score < 0
    /\ scored[1].score > 0
    /\ scored[1].pos > scored[10].pos
    /\ \E i \in 1..9 : scored[i].score = scored[i + 1].score

(***************************************************************************)
(* C5: after POST /api/tools returned an identifier, any later unfiltered  *)
(* GET /api/tools (no q, category or pricing) answers a list holding a     *)
(* tool equal to the posted payload, whatever the prior store content and  *)
(* the permitted limit.                                                    *)
(***************************************************************************)
C5Unfiltered ==
    /\ Succeeded("list")
    /\ req.q = None
    /\ req.category = None
    /\ req.pricing = None

C5LimitGiven == IF req.limit = None THEN 50 ELSE req.limit[1]

\* C5 as claimed: every successful unfiltered listing holds every posted payload
C5_Original_RoundTripAnyLimit ==
    C5Unfiltered => \A p \in posted : \E i \in 1..Len(resp.tools) : resp.tools[i] = p

\* C5 amended: a successful unfiltered listing whose limit is no smaller than
\* the number of stored documents holds every posted payload
C5_RoundTripWithinLimit ==
    (C5Unfiltered /\ Len(store) <= C5LimitGiven) =>
        \A p \in posted : \E i \in 1..Len(resp.tools) : resp.tools[i] = p

\* two payloads posted after a legacy document, all three listed
C5_Witness ==
    /\ C5Unfiltered
    /\ Cardinality(posted) = 2
    /\ Len(store) = 3
    /\ Len(resp.tools) = 3
    /\ resp.tools[3] \in posted

(***************************************************************************)
(* C6: GET /api/tools accepts limit only from 1 to 200 (default 50); a     *)
(* limit outside is rejected as invalid without the store being queried,   *)
(* and an accepted limit L bounds the fetch and the answer by L.           *)
(***************************************************************************)
\* C6: a limit outside 1..200 is answered 422 with no store call; a limit
\* inside bounds the fetch and the answer
C6_LimitBounds ==
    req.op = "list" =>
        IF C5LimitGiven < 1 \/ C5LimitGiven > 200
        THEN /\ resp.status = 422
             /\ storeCalls = 0
             /\ docs = <<>>
             /\ resp.tools = <<>>
        ELSE /\ resp.status # 422
             /\ storeCalls = 1
             /\ Len(docs) <= C5LimitGiven
             /\ Len(resp.tools) <= C5LimitGiven

\* limit=1 over a store of three documents: one fetched, one answered
C6_Witness ==
    /\ Succeeded("list")
    /\ req.limit = Some(1)
    /\ Len(store) = 3
    /\ Len(docs) = 1
    /\ Len(resp.tools) = 1

(***************************************************************************)
(* C7: in POST /api/tools, GET /api/tools and GET /api/recommend a failure *)
(* of the store call, or a fetched document that fails validation, aborts  *)
(* the request with HTTP 500 and the exception's message as detail; no     *)
(* partial list or partly filled tool is answered and nothing is retried.  *)
(***************************************************************************)
C7Refused(d) ==
    ~({"name", "description"} \subseteq DOMAIN d) \/ d["name"] = <<>>

\* C7: a failed store call or a refused document gives 500 with the
\* exception's message and no tool; an answer of 200 is whole; one store call
C7_FailureAbortsWhole ==
    req.op \in {"add", "list", "recommend"} =>
        /\ storeCalls <= 1
        /\ (storeCalls = 1 /\ req.err # NoErr) =>
              resp = [status |-> 500, tools |-> <<>>, id |-> 0,
                      detail |-> req.err, info |-> NoInfo]
        /\ (storeCalls = 1 /\ req.err = NoErr
              /\ \E i \in 1..Len(docs) : C7Refused(docs[i])) =>
              resp = [status |-> 500, tools |-> <<>>, id |-> 0,
                      detail |-> ValidationMsg, info |-> NoInfo]
        /\ resp.status = 200 =>
              /\ \A i \in 1..Len(resp.tools) : DOMAIN resp.tools[i] = ToolFields
              /\ (req.op = "list" /\ req.q = None) => Len(resp.tools) = Len(docs)
              /\ req.op = "recommend" =>
                    Len(resp.tools) = (IF Len(docs) < 10 THEN Len(docs) ELSE 10)

\* a valid document fetched before the one that fails validation: no tool answered
C7_Witness ==
    /\ req.op = "list"
    /\ req.err = NoErr
    /\ Len(docs) = 3
    /\ ~C7Refused(docs[1])
    /\ C7Refused(docs[2])
    /\ resp.status = 500
    /\ resp.detail = ValidationMsg
    /\ resp.tools = <<>>

(***************************************************************************)
(* C8: in GET /api/recommend, of any two fetched tools that tie on keyword *)
(* score, when a budget B is supplied, the one whose pricing equals B is   *)
(* ranked before the one whose pricing does not, whatever the fetch order. *)
(***************************************************************************)
C8BudgetDecides(tied(_, _), given(_)) ==
    (Succeeded("recommend") /\ given(req.budget)) =>
        \A i, j \in 1..Len(scored) :
            (/\ tied(scored[i].tool, scored[j].tool)
             /\ scored[i].tool.pricing = req.budget[1]
             /\ scored[j].tool.pricing # req.budget[1])
            => /\ i < j
               /\ j <= Len(resp.tools) => resp.tools[i] = scored[i].tool

C8KeywordTie(a, b) == C3Keyword(a) = C3Keyword(b)
C8KeywordAndCategoryTie(a, b) ==
    C3Keyword(a) = C3Keyword(b) /\ C3Category(a) = C3Category(b)

\* C8 as claimed: a keyword tie suffices (read in the claim's favour, with B
\* not the empty string, for which no bonus is given at all)
C8_Original_BudgetOutranksOnKeywordTie == C8BudgetDecides(C8KeywordTie, GivenNonEmpty)

\* C8 amended: of two tools that tie on keyword score and on the category
\* adjustment, under a budget B that is not the empty string, the one priced
\* B is ranked before the one that is not
C8_BudgetOutranksOnFullTie == C8BudgetDecides(C8KeywordAndCategoryTie, GivenNonEmpty)

\* the tool priced B was fetched last and is ranked first, ahead of a tool
\* that ties with it on keywords and categories
C8_Witness ==
    /\ Succeeded("recommend")
    /\ req.budget = Some(tFree)
    /\ req.categories # None
    /\ Len(scored) = 3
    /\ scored[1].pos = 3
    /\ scored[1].tool.pricing = tFree
    /\ \E j \in 2..3 :
          /\ scored[j].tool.pricing # tFree
          /\ C8KeywordAndCategoryTie(scored[1].tool, scored[j].tool)

(***************************************************************************)
(* C9: for a fixed fetched sequence and fixed task, categories and budget, *)
(* GET /api/recommend answers the same ordered list in every run: the      *)
(* answer does not depend on the order in which the set of task words is   *)
(* iterated.                                                               *)
(***************************************************************************)
\* C9: the sorted list and the answer are the same for every order in which
\* the set of task words can be iterated
C9_AnswerIndependentOfIteration ==
    Succeeded("recommend") =>
        \A o \in Orders(TaskWords(req.task)) :
            LET other == SortDesc(ScoreAll(Page, o, req.categories, req.budget))
            IN  /\ TopTools(other) = resp.tools
                /\ other = scored

\* a task of two words, iterated in an order other than the one first
\* enumerated, over tools whose scores differ
C9_Witness ==
    /\ Succeeded("recommend")
    /\ Cardinality(TaskWords(req.task)) = 2
    /\ req.order = <<tPdf, <<"s","u","m">> >>
    /\ Len(scored) = 3
    /\ scored[1].score > scored[2].score
    /\ scored[2].score > scored[3].score
    /\ scored[1].pos # 1

(***************************************************************************)
(* C10: the store's documents change only through a successful             *)
(* POST /api/tools, which appends exactly one document and leaves the      *)
(* others as they were; every other request, failing runs included, leaves *)
(* the store as it was.                                                    *)
(***************************************************************************)
\* C10: a step changes the store only as a successful POST, by appending the
\* posted payload under the identifier answered
C10Step ==
    IF req'.op = "add" /\ resp'.status = 200
    THEN /\ Len(store') = Len(store) + 1
         /\ SubSeq(store', 1, Len(store)) = store
         /\ PopId(store'[Len(store')]) = req'.payload
         /\ store'[Len(store')]["_id"] = resp'.id
    ELSE store' = store

\* C10: every step of every behaviour is such a step
C10_StoreChangesOnlyByPost == [][C10Step]_vars

\* a successful POST onto a store that already held two documents
C10_Witness ==
    /\ Succeeded("add")
    /\ Len(store) = 3
    /\ PopId(store[3]) = req.payload
    /\ store[1] = LegacyDoc

====
